---------------------------- MODULE Spec2Model ----------------------------
(***************************************************************************)
(* One-way periodic mirroring of a source directory tree onto a replica    *)
(* directory tree (src/main.py).                                           *)
(*                                                                         *)
(* A directory tree is a function from the relative paths present under    *)
(* its root to entries.  A relative path is a non-empty sequence of names; *)
(* the root itself is the empty sequence and always is a directory.        *)
(* A file entry holds its bytes and its modification time.                 *)
(***************************************************************************)
EXTENDS Integers, Sequences, FiniteSets, TLC

VARIABLES
    source,      \* the source tree
    replica,     \* the replica tree
    srcOk,       \* os.path.isdir(source_dir) at start-up
    repOk,       \* os.path.isdir(replica_dir) at start-up
    interval,    \* the interval argument, as typed on the command line
    stop,        \* stop_event (threading.Event): set or not
    mpc,         \* main(): position of the controlling thread
    spc,         \* sync_folders(): position of the scheduler thread
    changes,     \* changes = [files, folders] of the cycle in progress
    log,         \* every log_message call so far, in order
    cycle,       \* number of cycles started
    replica0,    \* history: the replica tree when the current cycle started
    faultsLeft,  \* how many more I/O failures the environment may inject
    fwdFault,    \* history: the I/O failure that fired in the forward pass
    revFault,    \* history: the I/O failure that fired in the reverse pass
    prevFailed,  \* history: an I/O failure fired in the cycle before
    lastWait,    \* history: how the last stop_event.wait returned
    stopLen,     \* history: Len(log) when stop_event was set (-1: not set)
    stopAt,      \* history: spc when stop_event was set
    layout,      \* where the two roots lie relative to each other
    cycleCap     \* how many cycles the model lets the scheduler start

vars == <<source, replica, srcOk, repOk, interval, stop, mpc, spc, changes,
          log, cycle, replica0, faultsLeft, fwdFault, revFault, prevFailed,
          lastWait, stopLen, stopAt, layout, cycleCap>>

(***************************************************************************)
(* Bounds of the model.                                                    *)
(***************************************************************************)
MaxSourceEntries == 2
MaxReplicaEntries == 3
MaxMainEntries == 1
MaxCycles == 2
MaxFaults == 1
MaxScenarioCycles == 3

Names == {1, 2}
Contents == {<<1>>, <<2>>}
Mtimes == {1, 2}
SourceMtimes == {1}

(***************************************************************************)
(* Paths and trees.                                                        *)
(***************************************************************************)
Root == <<>>

Parent(p) == SubSeq(p, 1, Len(p) - 1)

BaseName(p) == p[Len(p)]

Join(d, name) == Append(d, name)

IsPrefix(p, q) == Len(p) <= Len(q) /\ SubSeq(q, 1, Len(p)) = p

IsInside(p, q) == Len(p) < Len(q) /\ IsPrefix(p, q)

FileEntry(c, m) == [kind |-> "file", content |-> c, mtime |-> m]

DirEntry == [kind |-> "dir", content |-> <<>>, mtime |-> 0]

FileEntries == {FileEntry(c, m) : c \in Contents, m \in Mtimes}

SourceFileEntries == {FileEntry(c, m) : c \in Contents, m \in SourceMtimes}

EmptyTree == [p \in {} |-> DirEntry]

IsDir(t, p) == p = Root \/ (p \in DOMAIN t /\ t[p].kind = "dir")

IsFile(t, p) == p \in DOMAIN t /\ t[p].kind = "file"

Exists(t, p) == p = Root \/ p \in DOMAIN t

Put(t, p, e) == [q \in (DOMAIN t) \cup {p} |-> IF q = p THEN e ELSE t[q]]

Remove(t, P) == [q \in (DOMAIN t) \ P |-> t[q]]

Under(t, d) == {q \in DOMAIN t : IsInside(d, q)}

Children(t, d) == {q \in DOMAIN t : Parent(q) = d}

(* The paths at which one more entry can be added to tree t.               *)
Free(t) ==
    {Join(d, n) : d \in {Root} \cup {q \in DOMAIN t : t[q].kind = "dir"},
                  n \in Names} \ DOMAIN t

(* Every tree of at most maxEntries entries whose files are among files.   *)
RECURSIVE Trees(_, _)
Trees(maxEntries, files) ==
    IF maxEntries = 0 THEN {EmptyTree}
    ELSE LET smaller == Trees(maxEntries - 1, files)
         IN  smaller \cup
             UNION {{Put(t, p, e) : p \in Free(t),
                                    e \in files \cup {DirEntry}} :
                    t \in smaller}

(***************************************************************************)
(* os.scandir lists a directory in an order of its own; the model lists by *)
(* name.                                                                   *)
(***************************************************************************)
RECURSIVE ByName(_)
ByName(S) ==
    IF S = {} THEN <<>>
    ELSE LET m == CHOOSE p \in S : \A q \in S : BaseName(p) <= BaseName(q)
         IN  <<m>> \o ByName(S \ {m})

ListFiles(t, d) == ByName({q \in Children(t, d) : t[q].kind = "file"})

ListDirs(t, d) == ByName({q \in Children(t, d) : t[q].kind = "dir"})

(***************************************************************************)
(* Log events: one record per log_message call.                            *)
(***************************************************************************)
Ev(kind, op, path, info) ==
    [kind |-> kind, op |-> op, path |-> path, info |-> info]

(***************************************************************************)
(* Injected I/O failures.  A failure names one path and the primitive that *)
(* raises on it:                                                           *)
(*   srcStat  - os.path.getsize / getmtime of the source file raise        *)
(*              (the path vanished after os.walk listed it)                *)
(*   srcRead  - open() of the source file raises PermissionError           *)
(*   repRead  - open() of the replica file raises PermissionError          *)
(*   repWrite - mkdir, copy onto, unlink or rmdir of the replica path      *)
(*              raise PermissionError                                      *)
(***************************************************************************)
NoFault == [kind |-> "none", path |-> Root]

Fault(k, p) == [kind |-> k, path |-> p]

Hits(f, k, p) == f.kind = k /\ f.path = p

(***************************************************************************)
(* The state a pass threads through its loop.                              *)
(***************************************************************************)
PassState(rep, ch) ==
    [rep |-> rep, log |-> <<>>, changes |-> ch,
     crashed |-> FALSE, hit |-> FALSE]

Crash(st, injected) == [st EXCEPT !.crashed = TRUE, !.hit = @ \/ injected]

Emit(st, e) == [st EXCEPT !.log = Append(@, e)]

calculate_sha1(content) == [sha1 |-> content]

get_file_size(e) == Len(e.content)

get_file_modification_date(e) == e.mtime

(* log_error: "Permission denied: ..." for a PermissionError, "OS error    *)
(* while ..." for any other OSError.                                       *)
log_error(st, permission, path, op, injected) ==
    [Emit(st, Ev(IF permission THEN "PermissionDenied" ELSE "OSError",
                 op, path, <<>>))
        EXCEPT !.hit = @ \/ injected]


(***************************************************************************)
(* What a pass reads besides the replica: the source tree, the injected    *)
(* failure, and whether a replica directory standing where the source has  *)
(* a file happens to carry that file's modification time.                  *)
(***************************************************************************)
Env(src, fault, clash) ==
    [src |-> src, fault |-> fault, clash |-> clash, inside |-> FALSE]

(***************************************************************************)
(* check_input accepts any two existing directories, also a source root    *)
(* that lies inside the replica root (source_dir = replica_dir/2).  Then   *)
(* the source tree is the part of the replica tree below that directory,   *)
(* as it is at the moment it is read; once the directory is gone, os.walk  *)
(* of the source yields nothing and no source path exists.                 *)
(***************************************************************************)
MountPoint == <<2>>

Subtree(t, m) ==
    [p \in {SubSeq(q, Len(m) + 1, Len(q)) : q \in Under(t, m)} |-> t[m \o p]]

EnvInside(fault, clash) ==
    [src |-> EmptyTree, fault |-> fault, clash |-> clash, inside |-> TRUE]

Src(rep, env) == IF env.inside THEN Subtree(rep, MountPoint) ELSE env.src

(***************************************************************************)
(* copy_or_update_file (lines 81-109).  shutil.copy2 copies into dst when  *)
(* dst is a directory, and copies the bytes and the modification time.     *)
(***************************************************************************)
CopyTarget(rep, p) == IF IsDir(rep, p) THEN Join(p, BaseName(p)) ELSE p

(* shutil.copy2 raises SameFileError, an OSError, when the file to copy    *)
(* and the file to write are one file.                                     *)
SameFile(p, dst, env) == env.inside /\ dst = MountPoint \o p

copy2_BytesLost(rep, srcEntry, dst) ==
    Put(rep, dst, FileEntry(<<>>, srcEntry.mtime))

copy2(rep, srcEntry, dst) ==
    Put(rep, dst, FileEntry(srcEntry.content, srcEntry.mtime))

copy_or_update_file(st, p, isUpdate, env) ==
    LET src == Src(st.rep, env)[p]
        old == IF Exists(st.rep, p) THEN st.rep[p] ELSE DirEntry
        dst == CopyTarget(st.rep, p)
    IN  IF Hits(env.fault, "srcStat", p) THEN Crash(st, TRUE)
        ELSE IF Hits(env.fault, "srcRead", p)
             THEN log_error(st, TRUE, p, "copy/update", TRUE)
        ELSE IF \/ ~IsDir(st.rep, Parent(dst)) \/ IsDir(st.rep, dst)
                \/ SameFile(p, dst, env)
             THEN log_error(st, FALSE, p, "copy/update", FALSE)
        ELSE IF Hits(env.fault, "repWrite", dst)
             THEN log_error(st, TRUE, p, "copy/update", TRUE)
        ELSE [Emit(st, IF isUpdate
                       THEN Ev("Updated", "copy/update", p,
                               <<get_file_size(old), get_file_size(src),
                                 get_file_modification_date(old),
                                 get_file_modification_date(src)>>)
                       ELSE Ev("Copied", "copy/update", p, <<>>))
                EXCEPT !.rep = copy2(st.rep, src, dst),
                       !.changes[1] = @ + 1]

(***************************************************************************)
(* create_folder (lines 112-121) and os.makedirs: the missing ancestors    *)
(* are made first, each by one mkdir.                                      *)
(***************************************************************************)
RECURSIVE makedirs(_, _, _)
makedirs(rep, d, fault) ==
    LET up == IF Exists(rep, Parent(d)) THEN [rep |-> rep, err |-> "ok"]
              ELSE makedirs(rep, Parent(d), fault)
    IN  IF up.err # "ok" THEN up
        ELSE IF ~IsDir(up.rep, Parent(d)) \/ Exists(up.rep, d)
             THEN [rep |-> up.rep, err |-> "os"]
        ELSE IF Hits(fault, "repWrite", d)
             THEN [rep |-> up.rep, err |-> "permission"]
        ELSE [rep |-> Put(up.rep, d, DirEntry), err |-> "ok"]

create_folder(st, d, env) ==
    LET made == makedirs(st.rep, d, env.fault)
        st1 == [st EXCEPT !.rep = made.rep]
    IN  IF made.err = "ok"
        THEN [Emit(st1, Ev("CreatedFolder", "create", d, <<>>))
                EXCEPT !.changes[2] = @ + 1]
        ELSE log_error(st1, made.err = "permission", d, "create",
                       made.err = "permission")

(***************************************************************************)
(* The body of the file loop (lines 133-146).                              *)
(***************************************************************************)
NeedsUpdate_MtimeOnly(srcEntry, repEntry) ==
    srcEntry.mtime # repEntry.mtime

NeedsUpdate(srcEntry, repEntry) ==
    \/ srcEntry.mtime # repEntry.mtime
    \/ calculate_sha1(srcEntry.content) # calculate_sha1(repEntry.content)

SyncFile(st, p, env) ==
    LET src == Src(st.rep, env)[p]
    IN  IF st.crashed THEN st
        ELSE IF ~Exists(st.rep, p) THEN copy_or_update_file(st, p, FALSE, env)
        ELSE IF Hits(env.fault, "srcStat", p) THEN Crash(st, TRUE)
        ELSE IF IsDir(st.rep, p)
             THEN IF ~env.clash THEN copy_or_update_file(st, p, TRUE, env)
                  ELSE Crash(st, Hits(env.fault, "srcRead", p))
        ELSE IF src.mtime # st.rep[p].mtime
             THEN copy_or_update_file(st, p, TRUE, env)
        ELSE IF Hits(env.fault, "srcRead", p) \/ Hits(env.fault, "repRead", p)
             THEN Crash(st, TRUE)
        ELSE IF NeedsUpdate(src, st.rep[p])
             THEN copy_or_update_file(st, p, TRUE, env)
        ELSE st

(***************************************************************************)
(* create_or_update_files_and_folders (lines 124-146): os.walk(source_dir) *)
(* top-down; an exception raised outside the try blocks ends the walk.     *)
(***************************************************************************)
RECURSIVE SyncFiles(_, _, _)
SyncFiles(st, files, env) ==
    IF files = <<>> THEN st
    ELSE SyncFiles(SyncFile(st, Head(files), env), Tail(files), env)

RECURSIVE WalkSource(_, _, _)
RECURSIVE WalkSourceDirs(_, _, _)
WalkSource_FilesFirst(st, d, env) ==
    LET files == ListFiles(Src(st.rep, env), d)
        dirs == ListDirs(Src(st.rep, env), d)
        st1 == SyncFiles(st, files, env)
        st2 == IF ~Exists(st1.rep, d) /\ ~st1.crashed
               THEN create_folder(st1, d, env) ELSE st1
    IN  IF st.crashed THEN st
        ELSE WalkSourceDirs(st2, dirs, env)

WalkSource(st, d, env) ==
    LET files == ListFiles(Src(st.rep, env), d)
        dirs == ListDirs(Src(st.rep, env), d)
        st1 == IF ~Exists(st.rep, d) THEN create_folder(st, d, env) ELSE st
        st2 == SyncFiles(st1, files, env)
    IN  IF st.crashed THEN st
        ELSE WalkSourceDirs(st2, dirs, env)

WalkSourceDirs(st, dirs, env) ==
    IF dirs = <<>> THEN st
    ELSE WalkSourceDirs(WalkSource(st, Head(dirs), env), Tail(dirs), env)

create_or_update_files_and_folders(rep, ch, env) ==
    WalkSource(PassState(rep, ch), Root, env)

(***************************************************************************)
(* delete_file (lines 149-158).                                            *)
(***************************************************************************)
delete_file(st, p, env) ==
    IF Hits(env.fault, "repWrite", p)
    THEN log_error(st, TRUE, p, "delete", TRUE)
    ELSE [Emit(st, Ev("DeletedFile", "delete", p, <<>>))
            EXCEPT !.rep = Remove(st.rep, {p}),
                   !.changes[1] = @ + 1]

(***************************************************************************)
(* shutil.rmtree: the entries of a directory are removed one by one, then  *)
(* the directory; the first failure ends the removal.                      *)
(***************************************************************************)
RECURSIVE rmtree(_, _, _)
RECURSIVE RmEntries(_, _, _)
rmtree(r, d, fault) ==
    LET in == RmEntries(r, ByName(Children(r.rep, d)), fault)
    IN  IF ~in.ok THEN in
        ELSE IF Hits(fault, "repWrite", d) THEN [in EXCEPT !.ok = FALSE]
        ELSE [in EXCEPT !.rep = Remove(in.rep, {d})]

RmEntries(r, entries, fault) ==
    IF entries = <<>> \/ ~r.ok THEN r
    ELSE LET e == Head(entries)
             r1 == IF r.rep[e].kind = "dir" THEN rmtree(r, e, fault)
                   ELSE IF Hits(fault, "repWrite", e)
                        THEN [r EXCEPT !.ok = FALSE]
                   ELSE [r EXCEPT !.rep = Remove(r.rep, {e})]
         IN  RmEntries(r1, Tail(entries), fault)

(***************************************************************************)
(* delete_folder (lines 161-181): the counts of the inner os.walk are      *)
(* added to the counters before shutil.rmtree runs.                        *)
(***************************************************************************)
CountFiles_TopLevel(rep, d) ==
    Cardinality({q \in Children(rep, d) : rep[q].kind = "file"})

CountFiles(rep, d) == Cardinality({q \in Under(rep, d) : rep[q].kind = "file"})

CountDirs(rep, d) == Cardinality({q \in Under(rep, d) : rep[q].kind = "dir"})

delete_folder_KeepsTree(st, d, env) ==
    LET f == CountFiles(st.rep, d)
        s == CountDirs(st.rep, d)
    IN  [Emit(st, Ev("DeletedFolder", "delete", d, <<f, s>>))
            EXCEPT !.changes[1] = @ + f, !.changes[2] = @ + s + 1]

delete_folder(st, d, env) ==
    LET f == CountFiles(st.rep, d)
        s == CountDirs(st.rep, d)
        counted == [st EXCEPT !.changes[1] = @ + f, !.changes[2] = @ + s]
        rm == rmtree([rep |-> st.rep, ok |-> TRUE], d, env.fault)
        removed == [counted EXCEPT !.rep = rm.rep]
    IN  IF rm.ok
        THEN [Emit(removed, Ev("DeletedFolder", "delete", d, <<f, s>>))
                EXCEPT !.changes[2] = @ + 1]
        ELSE log_error(removed, TRUE, d, "delete", TRUE)

(***************************************************************************)
(* remove_deleted_files_and_folders (lines 184-202): os.walk(replica_dir)  *)
(* top-down.  os.walk lists a directory when it reaches it and skips one   *)
(* it can no longer list.                                                  *)
(***************************************************************************)
RECURSIVE RemoveFiles(_, _, _)
RemoveFiles(st, files, env) ==
    IF files = <<>> THEN st
    ELSE RemoveFiles(IF ~Exists(Src(st.rep, env), Head(files))
                     THEN delete_file(st, Head(files), env) ELSE st,
                     Tail(files), env)

RECURSIVE RemoveDirs(_, _, _)
RemoveDirs(st, dirs, env) ==
    IF dirs = <<>> THEN st
    ELSE RemoveDirs(IF ~Exists(Src(st.rep, env), Head(dirs))
                    THEN delete_folder(st, Head(dirs), env) ELSE st,
                    Tail(dirs), env)

RECURSIVE WalkReplica(_, _, _)
RECURSIVE WalkReplicaDirs(_, _, _)
WalkReplica(st, d, env) ==
    LET files == ListFiles(st.rep, d)
        dirs == ListDirs(st.rep, d)
        st1 == RemoveFiles(st, files, env)
        st2 == RemoveDirs(st1, dirs, env)
    IN  IF ~IsDir(st.rep, d) THEN st
        ELSE WalkReplicaDirs(st2, dirs, env)

WalkReplicaDirs(st, dirs, env) ==
    IF dirs = <<>> THEN st
    ELSE WalkReplicaDirs(WalkReplica(st, Head(dirs), env), Tail(dirs), env)

remove_deleted_files_and_folders(rep, ch, env) ==
    WalkReplica(PassState(rep, ch), Root, env)


(***************************************************************************)
(* The command line: the interval as typed.  int(interval) raises          *)
(* ValueError for a text that is no integer.                               *)
(***************************************************************************)
IntArg(v) == [isInt |-> TRUE, val |-> v]

NotAnInt == [isInt |-> FALSE, val |-> 0]

IntervalArgs == {IntArg(-5), IntArg(0), IntArg(1), NotAnInt}

(* check_input (lines 43-55): TRUE when it returns normally.               *)
check_input(sOk, rOk, arg) == sOk /\ rOk /\ arg.isInt

(* stop_event.wait(int(interval)) blocks only for a positive timeout.      *)
WaitBlocks(arg) == arg.val > 0

(***************************************************************************)
(* The failures a pass may meet: at most one per pass, on a path the pass  *)
(* can touch.                                                              *)
(***************************************************************************)
ForwardFaults ==
    IF faultsLeft = 0 THEN {NoFault} ELSE
    {NoFault}
    \cup {Fault(k, p) : k \in {"srcStat", "srcRead"},
                        p \in {q \in DOMAIN source : IsFile(source, q)}}
    \cup {Fault("repRead", p) :
              p \in {q \in DOMAIN replica : IsFile(replica, q)}}
    \cup {Fault("repWrite", p) :
              p \in (DOMAIN source)
                    \cup {Join(q, BaseName(q)) : q \in DOMAIN source}}

ReverseFaults ==
    IF faultsLeft = 0 THEN {NoFault} ELSE
    {NoFault} \cup {Fault("repWrite", p) : p \in DOMAIN replica}

IoFailed == fwdFault # NoFault \/ revFault # NoFault

(***************************************************************************)
(* Groups of variables an action leaves alone.                             *)
(***************************************************************************)
args == <<srcOk, repOk, interval, layout, cycleCap>>

inputs == <<source, args>>

faultHist == <<faultsLeft, fwdFault, revFault, prevFailed>>

stopHist == <<stopLen, stopAt>>

(***************************************************************************)
(* sync_folders (lines 205-224), the scheduler thread.                     *)
(***************************************************************************)
LoopEnter ==
    /\ spc = "loop" /\ ~stop /\ cycle < cycleCap
    /\ spc' = "start"
    /\ UNCHANGED <<inputs, replica, stop, mpc, changes, log, cycle, replica0,
                   faultHist, lastWait, stopHist>>

LoopExit ==
    /\ spc = "loop" /\ stop
    /\ spc' = "done"
    /\ UNCHANGED <<inputs, replica, stop, mpc, changes, log, cycle, replica0,
                   faultHist, lastWait, stopHist>>

CycleStart_KeepsCounters ==
    /\ spc = "start"
    /\ log' = Append(log, Ev("CycleStart", "sync", Root, <<>>))
    /\ cycle' = cycle + 1
    /\ replica0' = replica
    /\ fwdFault' = NoFault
    /\ revFault' = NoFault
    /\ prevFailed' = IoFailed
    /\ spc' = "forward"
    /\ UNCHANGED <<inputs, replica, stop, mpc, changes, faultsLeft, lastWait,
                   stopHist>>

CycleStart ==
    /\ spc = "start"
    /\ log' = Append(log, Ev("CycleStart", "sync", Root, <<>>))
    /\ changes' = <<0, 0>>
    /\ cycle' = cycle + 1
    /\ replica0' = replica
    /\ fwdFault' = NoFault
    /\ revFault' = NoFault
    /\ prevFailed' = IoFailed
    /\ spc' = "forward"
    /\ UNCHANGED <<inputs, replica, stop, mpc, faultsLeft, lastWait, stopHist>>

ForwardPass_DeletesFirst ==
    /\ spc = "forward"
    /\ \E fault \in ForwardFaults, clash \in BOOLEAN :
         LET env == IF layout = "inside" THEN EnvInside(fault, clash)
                    ELSE Env(source, fault, clash)
             d == remove_deleted_files_and_folders(replica, changes, env)
             r == create_or_update_files_and_folders(d.rep, d.changes, env)
         IN  /\ replica' = r.rep
             /\ source' = Src(r.rep, env)
             /\ changes' = r.changes
             /\ log' = log \o d.log \o r.log
             /\ fwdFault' = IF r.hit \/ d.hit THEN fault ELSE NoFault
             /\ faultsLeft' = IF r.hit \/ d.hit THEN faultsLeft - 1
                              ELSE faultsLeft
             /\ spc' = IF r.crashed THEN "crashed" ELSE "reverse"
    /\ UNCHANGED <<args, stop, mpc, cycle, replica0, revFault, prevFailed,
                   lastWait, stopHist>>

ForwardPass ==
    /\ spc = "forward"
    /\ \E fault \in ForwardFaults, clash \in BOOLEAN :
         LET env == IF layout = "inside" THEN EnvInside(fault, clash)
                    ELSE Env(source, fault, clash)
             r == create_or_update_files_and_folders(replica, changes, env)
         IN  /\ replica' = r.rep
             /\ source' = Src(r.rep, env)
             /\ changes' = r.changes
             /\ log' = log \o r.log
             /\ fwdFault' = IF r.hit THEN fault ELSE NoFault
             /\ faultsLeft' = IF r.hit THEN faultsLeft - 1 ELSE faultsLeft
             /\ spc' = IF r.crashed THEN "crashed" ELSE "reverse"
    /\ UNCHANGED <<args, stop, mpc, cycle, replica0, revFault, prevFailed,
                   lastWait, stopHist>>

ReversePass ==
    /\ spc = "reverse"
    /\ \E fault \in ReverseFaults :
         LET env == IF layout = "inside" THEN EnvInside(fault, FALSE)
                    ELSE Env(source, fault, FALSE)
             r == remove_deleted_files_and_folders(replica, changes, env)
         IN  /\ replica' = r.rep
             /\ source' = Src(r.rep, env)
             /\ changes' = r.changes
             /\ log' = log \o r.log
             /\ revFault' = IF r.hit THEN fault ELSE NoFault
             /\ faultsLeft' = IF r.hit THEN faultsLeft - 1 ELSE faultsLeft
    /\ spc' = "summary"
    /\ UNCHANGED <<args, stop, mpc, cycle, replica0, fwdFault, prevFailed,
                   lastWait, stopHist>>

CycleEnd_NoSummary ==
    /\ spc = "summary"
    /\ log' = Append(log, Ev("Separator", "sync", Root, <<>>))
    /\ spc' = "wait"
    /\ UNCHANGED <<inputs, replica, stop, mpc, changes, cycle, replica0,
                   faultHist, lastWait, stopHist>>

CycleEnd ==
    /\ spc = "summary"
    /\ log' = log \o <<Ev("CycleEnd", "sync", Root, changes),
                       Ev("Separator", "sync", Root, <<>>)>>
    /\ spc' = "wait"
    /\ UNCHANGED <<inputs, replica, stop, mpc, changes, cycle, replica0,
                   faultHist, lastWait, stopHist>>

WaitTimeout ==
    /\ spc = "wait" /\ ~stop
    /\ lastWait' = IF WaitBlocks(interval) THEN "timeout" ELSE "immediate"
    /\ spc' = "loop"
    /\ UNCHANGED <<inputs, replica, stop, mpc, changes, log, cycle, replica0,
                   faultHist, stopHist>>

WaitSignalled ==
    /\ spc = "wait" /\ stop
    /\ lastWait' = "signalled"
    /\ spc' = "done"
    /\ UNCHANGED <<inputs, replica, stop, mpc, changes, log, cycle, replica0,
                   faultHist, stopHist>>

(***************************************************************************)
(* main (lines 227-257), the controlling thread.                           *)
(***************************************************************************)
ThreadEnded == spc \in {"done", "crashed"}

MainReject ==
    /\ mpc = "start" /\ ~check_input(srcOk, repOk, interval)
    /\ mpc' = "exit1"
    /\ UNCHANGED <<inputs, replica, stop, spc, changes, log, cycle, replica0,
                   faultHist, lastWait, stopHist>>

MainStart ==
    /\ mpc = "start" /\ check_input(srcOk, repOk, interval)
    /\ log' = Append(log, Ev("Run", "main", Root, <<>>))
    /\ mpc' = "join"
    /\ spc' = "loop"
    /\ UNCHANGED <<inputs, replica, stop, changes, cycle, replica0,
                   faultHist, lastWait, stopHist>>

KeyboardInterrupt ==
    /\ mpc = "join"
    /\ stop' = TRUE
    /\ stopLen' = Len(log)
    /\ stopAt' = spc
    /\ mpc' = "interrupted"
    /\ UNCHANGED <<inputs, replica, spc, changes, log, cycle, replica0,
                   faultHist, lastWait>>

MainJoined ==
    /\ mpc = "join" /\ ThreadEnded
    /\ mpc' = "exit0"
    /\ UNCHANGED <<inputs, replica, stop, spc, changes, log, cycle, replica0,
                   faultHist, lastWait, stopHist>>

MainStopped_NoJoin ==
    /\ mpc = "interrupted"
    /\ log' = Append(log, Ev("Stopped", "main", Root, <<>>))
    /\ mpc' = "exit0"
    /\ UNCHANGED <<inputs, replica, stop, spc, changes, cycle, replica0,
                   faultHist, lastWait, stopHist>>

MainStopped ==
    /\ mpc = "interrupted" /\ ThreadEnded
    /\ log' = Append(log, Ev("Stopped", "main", Root, <<>>))
    /\ mpc' = "exit0"
    /\ UNCHANGED <<inputs, replica, stop, spc, changes, cycle, replica0,
                   faultHist, lastWait, stopHist>>

(***************************************************************************)
(* The program: main with its scheduler thread.                            *)
(***************************************************************************)
InitHistory ==
    /\ stop = FALSE
    /\ changes = <<0, 0>>
    /\ cycle = 0
    /\ replica0 = EmptyTree
    /\ fwdFault = NoFault
    /\ revFault = NoFault
    /\ prevFailed = FALSE
    /\ lastWait = "none"
    /\ stopLen = -1
    /\ stopAt = "none"

InitCommon ==
    /\ InitHistory
    /\ faultsLeft = MaxFaults
    /\ layout = "apart"
    /\ cycleCap = MaxCycles

Init ==
    /\ InitCommon
    /\ srcOk \in BOOLEAN
    /\ repOk \in BOOLEAN
    /\ source \in IF srcOk /\ repOk
                   THEN Trees(MaxMainEntries, SourceFileEntries)
                   ELSE {EmptyTree}
    /\ replica \in IF srcOk /\ repOk
                    THEN Trees(MaxMainEntries, FileEntries) ELSE {EmptyTree}
    /\ interval \in IF srcOk /\ repOk THEN IntervalArgs ELSE {IntArg(1)}
    /\ mpc = "start"
    /\ spc = "idle"
    /\ log = <<>>

Next ==
    \/ MainReject \/ MainStart \/ KeyboardInterrupt \/ MainJoined \/ MainStopped
    \/ LoopEnter \/ LoopExit \/ CycleStart \/ ForwardPass \/ ReversePass
    \/ CycleEnd \/ WaitTimeout \/ WaitSignalled

Spec == Init /\ [][Next]_vars

(***************************************************************************)
(* sync_folders alone, entered with valid arguments and a stop_event that  *)
(* nobody sets, over every pair of trees within the bounds.                *)
(***************************************************************************)
InitSync ==
    /\ InitCommon
    /\ srcOk = TRUE
    /\ repOk = TRUE
    /\ source \in Trees(MaxSourceEntries, SourceFileEntries)
    /\ replica \in Trees(MaxReplicaEntries, FileEntries)
    /\ interval = IntArg(1)
    /\ mpc = "join"
    /\ spc = "loop"
    /\ log = <<>>

NextSync ==
    \/ LoopEnter \/ CycleStart \/ ForwardPass \/ ReversePass
    \/ CycleEnd \/ WaitTimeout

SpecSync == InitSync /\ [][NextSync]_vars

(***************************************************************************)
(* sync_folders entered with a source root that is the directory 2 of the  *)
(* replica root.                                                           *)
(***************************************************************************)
InitNested ==
    /\ InitHistory
    /\ faultsLeft = MaxFaults
    /\ layout = "inside"
    /\ cycleCap = MaxCycles
    /\ srcOk = TRUE
    /\ repOk = TRUE
    /\ replica \in {t \in Trees(MaxReplicaEntries, FileEntries) :
                        IsDir(t, MountPoint)}
    /\ source = Subtree(replica, MountPoint)
    /\ interval = IntArg(1)
    /\ mpc = "join"
    /\ spc = "loop"
    /\ log = <<>>

SpecNested == InitNested /\ [][NextSync]_vars

(***************************************************************************)
(* The scenario of the specification: sync_folders entered with one file   *)
(* in the source and an empty replica, no I/O failure; while the scheduler *)
(* waits for the interval, the user may modify the file or delete it.      *)
(***************************************************************************)
SourceModify ==
    /\ spc = "wait" /\ replica = source
    /\ \E p \in DOMAIN source, c \in Contents, m \in Mtimes :
         /\ IsFile(source, p) /\ c # source[p].content
         /\ source' = Put(source, p, FileEntry(c, m))
    /\ UNCHANGED <<args, replica, stop, mpc, spc, changes, log, cycle, replica0,
                   faultHist, lastWait, stopHist>>

SourceDelete ==
    /\ spc = "wait" /\ replica = source
    /\ \E p \in DOMAIN source :
         /\ IsFile(source, p)
         /\ source' = Remove(source, {p})
    /\ UNCHANGED <<args, replica, stop, mpc, spc, changes, log, cycle, replica0,
                   faultHist, lastWait, stopHist>>

InitScenario ==
    /\ InitHistory
    /\ faultsLeft = 0
    /\ layout = "apart"
    /\ cycleCap = MaxScenarioCycles
    /\ srcOk = TRUE
    /\ repOk = TRUE
    /\ \E n \in Names, e \in SourceFileEntries :
         source = Put(EmptyTree, <<n>>, e)
    /\ replica = EmptyTree
    /\ interval = IntArg(1)
    /\ mpc = "join"
    /\ spc = "loop"
    /\ log = <<>>

NextScenario ==
    \/ LoopEnter \/ CycleStart \/ ForwardPass \/ ReversePass
    \/ CycleEnd \/ WaitTimeout \/ SourceModify \/ SourceDelete

SpecScenario == InitScenario /\ [][NextScenario]_vars

(***************************************************************************)
(* Fairness: the scheduler thread keeps running its loop (every pass       *)
(* terminates), and main returns from join once the thread has ended.      *)
(***************************************************************************)
SchedulerNext ==
    \/ LoopEnter \/ LoopExit \/ CycleStart \/ ForwardPass \/ ReversePass
    \/ CycleEnd \/ WaitTimeout \/ WaitSignalled

SpecFair ==
    /\ Spec
    /\ WF_vars(SchedulerNext)
    /\ WF_vars(MainJoined)
    /\ WF_vars(MainStopped)

(***************************************************************************)
(* Vocabulary of the properties.                                           *)
(***************************************************************************)
ActionKinds ==
    {"Copied", "Updated", "CreatedFolder", "DeletedFile", "DeletedFolder"}

ErrorKinds == {"PermissionDenied", "OSError"}

(* Same relative paths, same kinds, same bytes.                            *)
Mirrors(src, rep) ==
    /\ DOMAIN rep = DOMAIN src
    /\ \A p \in DOMAIN src :
         rep[p].kind = src[p].kind /\ rep[p].content = src[p].content

(* Index of the last CycleStart in the log (0: none).                      *)
LastStart ==
    LET starts == {i \in 1..Len(log) : log[i].kind = "CycleStart"}
    IN  IF starts = {} THEN 0
        ELSE CHOOSE i \in starts : \A j \in starts : j <= i

CycleEvents == {log[i] : i \in (LastStart + 1)..Len(log)}

(* The events a step appends to the log.                                   *)
Appended == {log'[i] : i \in (Len(log) + 1)..Len(log')}

CycleIsOver == spc = "wait"


(***************************************************************************)
(* C1.  At the end of every cycle in which no I/O failure fired, the       *)
(* replica has exactly the relative paths of the source, each with the     *)
(* kind it has in the source, and every file has the bytes of its source   *)
(* file - whatever the replica held before, a directory in the place of a  *)
(* source file or a file in the place of a source directory included.      *)
(* (The source never changes in this model.)                               *)
(***************************************************************************)
C1_CycleEndMirrorsSource ==
    (CycleIsOver /\ ~IoFailed) => Mirrors(source, replica)

(***************************************************************************)
(* C2.  Convergence: a cycle that starts on an empty replica and meets no  *)
(* I/O failure ends with a replica that has the paths and kinds of the     *)
(* source and, in every file, the bytes of the source file.                *)
(***************************************************************************)
C2_Convergence ==
    (CycleIsOver /\ replica0 = EmptyTree /\ ~IoFailed)
        => Mirrors(source, replica)

(* A cycle from an empty replica has copied a file into a created folder.  *)
C2_Witness ==
    /\ CycleIsOver /\ replica0 = EmptyTree /\ ~IoFailed
    /\ \E p \in DOMAIN source :
         Len(p) = 2 /\ IsFile(source, p) /\ IsFile(replica, p)

(***************************************************************************)
(* C3.  Idempotence: a cycle that follows a completed cycle (nothing       *)
(* changes the trees between the two, and no I/O failure fires in either)  *)
(* logs no Copied, Updated, CreatedFolder, DeletedFile or DeletedFolder    *)
(* event, and its summary reports the counters (0, 0).                     *)
(***************************************************************************)
C3_Idempotence ==
    (CycleIsOver /\ cycle >= 2 /\ ~IoFailed /\ ~prevFailed)
        => /\ \A e \in CycleEvents : e.kind \notin ActionKinds
           /\ \A e \in CycleEvents : e.kind = "CycleEnd" => e.info = <<0, 0>>
           /\ changes = <<0, 0>>


(***************************************************************************)
(* Vocabulary of the deletion and update properties, written from the      *)
(* trees alone.                                                            *)
(***************************************************************************)
Doomed(src, rep) == {p \in DOMAIN rep : p \notin DOMAIN src}

TopDoomed(src, rep) ==
    {p \in Doomed(src, rep) : Parent(p) \notin Doomed(src, rep)}

FilesInside(rep, d) ==
    Cardinality({q \in DOMAIN rep : IsInside(d, q) /\ rep[q].kind = "file"})

DirsInside(rep, d) ==
    Cardinality({q \in DOMAIN rep : IsInside(d, q) /\ rep[q].kind = "dir"})

DeletedEvent(rep, p) ==
    IF rep[p].kind = "file" THEN Ev("DeletedFile", "delete", p, <<>>)
    ELSE Ev("DeletedFolder", "delete", p,
            <<FilesInside(rep, p), DirsInside(rep, p)>>)

EventsAfter(n) == {log[i] : i \in (n + 1)..Len(log)}

ForwardStep == spc = "forward" /\ spc' = "reverse"

ReverseStep == spc = "reverse" /\ spc' = "summary"

InCycle == {"forward", "reverse", "summary"}

StoppedLogged == \E i \in 1..Len(log) : log[i].kind = "Stopped"

StoppedIsLast ==
    \A i \in 1..Len(log) :
        log[i].kind = "Stopped" => (i = Len(log) /\ stop /\ ThreadEnded)

(***************************************************************************)
(* C4.  Deletion propagation: a reverse pass that meets no I/O failure     *)
(* removes every replica path the source does not have (a folder with all  *)
(* its descendants) and nothing else; it logs one Deleted event for every  *)
(* topmost such path, a folder's event reporting the f files and s         *)
(* subfolders the folder held at any depth; the counters grow by f files   *)
(* and s + 1 folders for each such folder and by one file for each file.   *)
(***************************************************************************)
C4_DeletionPropagation ==
    [][(ReverseStep /\ revFault' = NoFault) =>
        LET gone == Doomed(source, replica)
            top == TopDoomed(source, replica)
        IN  /\ DOMAIN replica' = DOMAIN replica \ gone
            /\ \A p \in DOMAIN replica' : replica'[p] = replica[p]
            /\ Appended = {DeletedEvent(replica, p) : p \in top}
            /\ Len(log') = Len(log) + Cardinality(top)
            /\ changes'[1] = changes[1]
                   + Cardinality({p \in gone : replica[p].kind = "file"})
            /\ changes'[2] = changes[2]
                   + Cardinality({p \in gone : replica[p].kind = "dir"})]_vars

(* A folder holding a subfolder with a file in it has been deleted, and    *)
(* reported with one file and one subfolder.                               *)
C4_Witness ==
    /\ spc = "summary" /\ revFault = NoFault
    /\ \E e \in CycleEvents :
         /\ e.kind = "DeletedFolder" /\ e.info = <<1, 1>>
         /\ e.path \notin DOMAIN replica
         /\ changes[1] >= 1 /\ changes[2] >= 2

(***************************************************************************)
(* C5.  Update detection: in a forward pass that runs to its end without   *)
(* an I/O failure, a source file whose replica file exists is updated if   *)
(* and only if the two modification times differ or the two fingerprints   *)
(* differ; an updated replica file has the bytes and the modification      *)
(* time of the source file, and a file that is not updated is left alone   *)
(* and has no event.                                                       *)
(***************************************************************************)
C5_UpdateDetection ==
    [][(ForwardStep /\ fwdFault' = NoFault) =>
        \A p \in DOMAIN source :
            (IsFile(source, p) /\ IsFile(replica, p)) =>
                LET differ ==
                        \/ source[p].mtime # replica[p].mtime
                        \/ calculate_sha1(source[p].content)
                               # calculate_sha1(replica[p].content)
                    updated ==
                        \E e \in Appended : e.kind = "Updated" /\ e.path = p
                IN  /\ differ <=> updated
                    /\ differ => replica'[p] = source[p]
                    /\ ~differ => /\ replica'[p] = replica[p]
                                  /\ \A e \in Appended : e.path # p]_vars

(* A replica file with the modification time of the source file and other  *)
(* bytes has been updated.                                                 *)
C5_Witness ==
    /\ spc = "reverse" /\ fwdFault = NoFault
    /\ \E e \in CycleEvents :
         /\ e.kind = "Updated" /\ e.info[3] = e.info[4]
         /\ IsFile(replica0, e.path)
         /\ replica0[e.path].mtime = source[e.path].mtime
         /\ replica0[e.path].content # source[e.path].content
         /\ replica[e.path] = source[e.path]

(***************************************************************************)
(* C6.  No error aborts the scheduler loop: the scheduler thread is never  *)
(* ended by an I/O failure met in a cycle.                                 *)
(***************************************************************************)
C6_NoErrorAbortsLoop == IoFailed => spc # "crashed"

(***************************************************************************)
(* C7.  Partial-failure isolation: a cycle in which the only I/O failure   *)
(* is one unwritable replica path is not aborted, and at its end an error  *)
(* event of that cycle is in the log.                                      *)
(***************************************************************************)
C7_PartialFailureIsolation ==
    (fwdFault.kind = "repWrite" \/ revFault.kind = "repWrite")
        => /\ spc # "crashed"
           /\ CycleIsOver => \E e \in CycleEvents : e.kind \in ErrorKinds

(***************************************************************************)
(* C8.  Cancellation: once stop_event is set while a cycle is in progress  *)
(* or during the wait, no CycleStart is logged any more; the thread ends   *)
(* a cycle that was in progress only after that cycle's CycleEnd summary;  *)
(* a wait that was in progress ends as signalled.                          *)
(***************************************************************************)
C8_Cancellation ==
    /\ stopAt \in InCycle \cup {"wait"}
         => \A e \in EventsAfter(stopLen) : e.kind # "CycleStart"
    /\ (stopAt \in InCycle /\ ThreadEnded)
         => \E e \in EventsAfter(stopLen) : e.kind = "CycleEnd"
    /\ (stopAt = "wait" /\ ThreadEnded)
         => (spc = "done" /\ lastWait = "signalled")

(***************************************************************************)
(* C9.  Graceful shutdown: once stop_event is set, the scheduler thread    *)
(* eventually ends and the "stopped" message is eventually logged; the     *)
(* message is only ever the last entry of the log, so it is logged once,   *)
(* after every CycleEnd summary, with no event after it, and it is logged  *)
(* only when the scheduler thread has ended.                               *)
(***************************************************************************)
C9_GracefulShutdown ==
    /\ [](StoppedIsLast)
    /\ stop ~> (ThreadEnded /\ StoppedLogged)

(* The interrupt came during a cycle, which then logged its summary, and   *)
(* the "stopped" message followed.                                         *)
C9_Witness ==
    /\ StoppedLogged /\ stopAt \in InCycle
    /\ \E e \in EventsAfter(stopLen) : e.kind = "CycleEnd"
    /\ log[Len(log)].kind = "Stopped"

(***************************************************************************)
(* C10.  An interval that is zero or negative never gets past check_input  *)
(* (no scheduler thread, no cycle), and stop_event.wait never returns at   *)
(* once between two cycles.                                                *)
(***************************************************************************)
C10_NonPositiveIntervalRejected ==
    /\ (interval.isInt /\ interval.val <= 0) => (spc = "idle" /\ cycle = 0)
    /\ lastWait # "immediate"


(***************************************************************************)
(* Vocabulary of the error-handling properties.                            *)
(***************************************************************************)
(* The I/O failure of the cycle fired inside a mutator operation: in a     *)
(* delete, in a mkdir or a copy onto the replica, or in the copy of a file *)
(* the replica did not have (copy_or_update_file is then called at once).  *)
ActionFailed ==
    \/ revFault # NoFault
    \/ fwdFault.kind = "repWrite"
    \/ /\ fwdFault.kind \in {"srcStat", "srcRead"}
       /\ fwdFault.path \notin DOMAIN replica0

CycleIndices == (LastStart + 1)..Len(log)

(***************************************************************************)
(* C11.  A mutator operation that failed in the cycle has left an error    *)
(* event in the log of the cycle; no two error events of a cycle are for   *)
(* the same path, and no path has both a success event and an error event  *)
(* in the same cycle.                                                      *)
(***************************************************************************)
C11_OneErrorEventPerFailure ==
    /\ ActionFailed => \E i \in CycleIndices : log[i].kind \in ErrorKinds
    /\ \A i, j \in CycleIndices :
         (i # j /\ log[i].path = log[j].path /\ log[i].kind \in ErrorKinds)
             => log[j].kind \notin ActionKinds \cup ErrorKinds


(***************************************************************************)
(* Vocabulary of the scenario.                                             *)
(***************************************************************************)
IsCycleEnd(e) == e.kind = "CycleEnd"

IsAction(e) == e.kind \in ActionKinds

CycleEnds == SelectSeq(log, IsCycleEnd)

Actions == SelectSeq(log, IsAction)

OneFile(t) == Cardinality(DOMAIN t) = 1 /\ \A p \in DOMAIN t : IsFile(t, p)

(***************************************************************************)
(* C12.  Scenario counters: every cycle starts from the counters (0, 0);   *)
(* the first cycle, on an empty replica, copies the one source file and    *)
(* reports (1, 0); a cycle that finds the file modified in the source logs *)
(* one update and reports (1, 0); a cycle that finds the file deleted from *)
(* the source deletes it from the replica and reports (1, 0); the summary  *)
(* of a cycle reports the counters of that cycle.                          *)
(***************************************************************************)
C12_ScenarioCounters ==
    /\ spc = "forward" => changes = <<0, 0>>
    /\ spc = "wait" => CycleEnds[Len(CycleEnds)].info = changes
    /\ (spc = "summary" /\ cycle = 1)
         => /\ changes = <<1, 0>> /\ replica = source
            /\ \A i \in CycleIndices : log[i].kind = "Copied"
    /\ (spc = "summary" /\ OneFile(replica0) /\ OneFile(source)
                        /\ source # replica0)
         => /\ changes = <<1, 0>> /\ replica = source
            /\ \A i \in CycleIndices : log[i].kind = "Updated"
    /\ (spc = "summary" /\ OneFile(replica0) /\ source = EmptyTree)
         => /\ changes = <<1, 0>> /\ replica = EmptyTree
            /\ \A i \in CycleIndices : log[i].kind = "DeletedFile"

(* The three cycles of the scenario have run: a copy, an update, a delete, *)
(* each reported with the counters (1, 0).                                 *)
C12_Witness ==
    /\ spc = "wait" /\ cycle = 3
    /\ Len(Actions) = 3 /\ Len(CycleEnds) = 3
    /\ Actions[1].kind = "Copied" /\ Actions[2].kind = "Updated"
    /\ Actions[3].kind = "DeletedFile"
    /\ \A i \in 1..3 : CycleEnds[i].info = <<1, 0>>


(***************************************************************************)
(* C13.  A reverse pass that meets no I/O failure deletes a replica entry  *)
(* if and only if the source has no entry of the same kind at the same     *)
(* relative path: a replica directory standing where the source has a file *)
(* is deleted, and so is a replica file standing where the source has a    *)
(* directory.                                                              *)
(***************************************************************************)
C13_ReverseDeletesUnlessSameKind ==
    [][(ReverseStep /\ revFault' = NoFault) =>
        \A p \in DOMAIN replica :
            (p \notin DOMAIN replica')
                <=> (p \notin DOMAIN source
                     \/ source[p].kind # replica[p].kind)]_vars

(***************************************************************************)
(* C14.  In the log, no event of a create or of a copy or update follows   *)
(* an event of a delete (a success or an error) unless a CycleStart lies   *)
(* between the two: within a cycle the forward pass has applied all its    *)
(* actions before the reverse pass takes its first delete decision.        *)
(***************************************************************************)
C14_ForwardBeforeReverse ==
    \A i, j \in 1..Len(log) :
        (i < j /\ log[i].op = "delete"
               /\ log[j].op \in {"create", "copy/update"})
            => \E k \in (i + 1)..(j - 1) : log[k].kind = "CycleStart"

(* A cycle has both copied or created something and then deleted something.*)
C14_Witness ==
    \E i, j \in CycleIndices :
        /\ i < j
        /\ log[i].kind \in {"Copied", "Updated", "CreatedFolder"}
        /\ log[j].kind \in {"DeletedFile", "DeletedFolder"}
        /\ log[j].path \notin DOMAIN source


(***************************************************************************)
(* C15.  In a reverse pass, a folder that is deleted is gone with all its  *)
(* descendants, its event reports the files and subfolders it held, and    *)
(* the pass logs no other event (no delete, no error) for any path inside  *)
(* it; in a pass that meets no I/O failure the counters grow by exactly    *)
(* the number of files and the number of folders removed from the replica. *)
(***************************************************************************)
C15_FolderDeleteShortCircuits ==
    [][ReverseStep =>
        /\ \A i \in (Len(log) + 1)..Len(log') :
             log'[i].kind = "DeletedFolder" =>
                 /\ \A j \in (Len(log) + 1)..Len(log') :
                        ~IsInside(log'[i].path, log'[j].path)
                 /\ \A q \in DOMAIN replica' : ~IsPrefix(log'[i].path, q)
                 /\ log'[i].info = <<FilesInside(replica, log'[i].path),
                                    DirsInside(replica, log'[i].path)>>
        /\ revFault' = NoFault =>
             LET removed == DOMAIN replica \ DOMAIN replica'
             IN  /\ changes'[1] - changes[1] =
                        Cardinality({p \in removed : replica[p].kind = "file"})
                 /\ changes'[2] - changes[2] =
                        Cardinality({p \in removed : replica[p].kind = "dir"})
       ]_vars

(* A folder with at least two items inside has been deleted as a whole:    *)
(* the cycle has no other event, and counted every removed item once.      *)
C15_Witness ==
    /\ spc = "summary"
    /\ \E e \in CycleEvents :
         /\ e.kind = "DeletedFolder" /\ e.info[1] + e.info[2] >= 2
         /\ changes = <<e.info[1], e.info[2] + 1>>
         /\ \A i \in CycleIndices : log[i] = e


(***************************************************************************)
(* Vocabulary of the sequencing properties.                                *)
(***************************************************************************)
IsCycleMark(e) == e.kind \in {"CycleStart", "CycleEnd"}

CycleMarks == SelectSeq(log, IsCycleMark)

(***************************************************************************)
(* C16.  Scheduler sequencing: the CycleStart and CycleEnd events of the   *)
(* log alternate, beginning with a CycleStart, one pair for every cycle    *)
(* (the cycle in progress has its CycleStart only); no wait has returned   *)
(* before the first CycleEnd, so the first cycle starts with no wait       *)
(* before it;                                                              *)
(* and the scheduler waits for the interval only when the last of these    *)
(* events is a CycleEnd.                                                   *)
(***************************************************************************)
C16_SchedulerSequencing ==
    /\ \A i \in 1..Len(CycleMarks) :
         CycleMarks[i].kind = IF i % 2 = 1 THEN "CycleStart" ELSE "CycleEnd"
    /\ Len(CycleMarks) = IF spc \in {"forward", "reverse", "summary", "crashed"}
                         THEN 2 * cycle - 1 ELSE 2 * cycle
    /\ Len(CycleMarks) < 2 => lastWait = "none"
    /\ spc = "wait" =>
         /\ Len(CycleMarks) >= 2
         /\ CycleMarks[Len(CycleMarks)].kind = "CycleEnd"

(* Two cycles have run, with a wait that timed out between them.           *)
C16_Witness ==
    /\ spc = "wait" /\ Len(CycleMarks) = 4
    /\ lastWait = "timeout"


(***************************************************************************)
(* C17.  Within a cycle, the event of the creation of a folder (success or *)
(* error) comes before the event of every copy of a file inside the folder *)
(* and before the event of the creation of every folder inside it; and     *)
(* every copy or creation inside a source directory whose path did not     *)
(* exist in the replica when the cycle started comes after an event of the *)
(* creation of that directory: the forward pass attempts to create a       *)
(* missing directory before it handles anything located in it.             *)
(***************************************************************************)
C17_FolderBeforeItsContents ==
    /\ \A i, j \in CycleIndices :
          (/\ log[j].op = "create"
           /\ log[i].op \in {"create", "copy/update"}
           /\ IsInside(log[j].path, log[i].path))
              => j < i
    /\ \A i \in CycleIndices : \A d \in DOMAIN source :
          (/\ log[i].op \in {"create", "copy/update"}
           /\ IsDir(source, d) /\ IsInside(d, log[i].path)
           /\ d \notin DOMAIN replica0)
              => \E j \in CycleIndices :
                     j < i /\ log[j].op = "create" /\ log[j].path = d

(* A folder has been created and then a file copied into it.               *)
C17_Witness ==
    \E i, j \in CycleIndices :
        /\ i < j
        /\ log[i].kind = "CreatedFolder" /\ log[j].kind = "Copied"
        /\ Parent(log[j].path) = log[i].path
        /\ IsFile(replica, log[j].path)


(***************************************************************************)
(* C18.  A failed operation adds nothing to the counters: in every reverse *)
(* pass, with or without an I/O failure, the file counter grows by the     *)
(* number of files removed from the replica and the folder counter by the  *)
(* number of folders removed from it.                                      *)
(***************************************************************************)
C18_CountersCountWhatWasDone ==
    [][ReverseStep =>
        LET removed == DOMAIN replica \ DOMAIN replica'
        IN  /\ changes'[1] = changes[1]
                   + Cardinality({p \in removed : replica[p].kind = "file"})
            /\ changes'[2] = changes[2]
                   + Cardinality({p \in removed : replica[p].kind = "dir"})
       ]_vars


(***************************************************************************)
(* C19.  No pass of a cycle modifies the source tree: across every forward *)
(* pass and every reverse pass, with or without an I/O failure, the paths, *)
(* the kinds and the file contents of the source stay as they were.        *)
(***************************************************************************)
C19_PassesLeaveSourceAlone ==
    [][(spc \in {"forward", "reverse"} /\ spc' # spc) => source' = source]_vars


=============================================================================
